---- MODULE Spec2Model ----
(***************************************************************************)
(* StorySpark clip generation pipeline: the orchestrator generate_clip,    *)
(* the stage functions it calls, and the HTTP handlers that create a clip, *)
(* approve it and serve its audio, over the clips / clip_assets /          *)
(* approvals tables.                                                       *)
(*                                                                         *)
(* Every await of the orchestrator is one step, so the handlers and the    *)
(* other clip's pipeline interleave at each of them.  The orchestrator     *)
(* owns one ORM session per run: attribute assignments are collected in    *)
(* `dirty` and a commit writes exactly the dirty columns (an UPDATE of     *)
(* the changed columns, never a read of the row).  The session keeps its   *)
(* objects loaded across commits (expire_on_commit off): the run reads     *)
(* clip.parent_note, clip.scenario_type and clip.id after commits, which   *)
(* an async session can only serve from memory.                            *)
(*                                                                         *)
(* Spec             the handlers and the pipeline runs, commits succeed    *)
(* SpecStoreFault   the pipeline runs alone, any commit may raise          *)
(* SpecReviewSafety review_safety applied to every kind of response text   *)
(***************************************************************************)
EXTENDS Integers, Sequences, FiniteSets, TLC

(* ---- nullable columns ------------------------------------------------- *)
Null == <<>>
Some(v) == <<v>>

(* ---- ClipStatus ------------------------------------------------------- *)
PENDING == "pending"
GENERATING == "generating"
SAFETY_REVIEW == "safety_review"
SAFETY_FAILED == "safety_failed"
SYNTHESIZING == "synthesizing"
READY == "ready"
APPROVED == "approved"
REJECTED == "rejected"
FAILED == "failed"

ClipStatus ==
  {PENDING, GENERATING, SAFETY_REVIEW, SAFETY_FAILED, SYNTHESIZING,
   READY, APPROVED, REJECTED, FAILED}

(* ---- the clips the model follows, and the reference data -------------- *)
\* two clips: one pipeline run each, running concurrently
ClipIds == {"clip1", "clip2"}

\* rows of the scenarios table, by type key
Scenarios == {"bedtime"}

\* scenario_type values a request may carry (a free string in the request)
RequestScenarioTypes == {"bedtime", "stale_key"}

VARIABLES
  clips,              \* clips table: clip id -> row
  clip_assets,        \* clip_assets table: clip id -> row (clip_id is unique)
  approvals,          \* approvals table: clip id -> row (clip_id is unique)
  files,              \* audio files on disk
  pc,                 \* position of the pipeline run of each clip
  dirty,              \* the run's session: attributes assigned, not yet committed
  pending_asset,      \* the run's session: ClipAsset added, not yet committed
  gen_response,       \* what the generation model call gave
  generation_result,  \* local generation_result
  safety_response,    \* what the safety model call gave
  safety_result,      \* local safety_result
  tts_response,       \* what the TTS provider call gave
  voice_path,         \* local voice_path
  duration,           \* local duration
  mix_environment,    \* what the mixing call met
  final_path,         \* local final_path
  caught,             \* exception caught at the orchestrator boundary
  outcome,            \* how generate_clip ended for its caller
  trace,              \* calls and commits the run has made, in order
  fn_args,            \* argument of a stage function applied on its own
  fn_result           \* what the function gave for fn_args

vars ==
  <<clips, clip_assets, approvals, files, pc, dirty, pending_asset,
    gen_response, generation_result, safety_response, safety_result,
    tts_response, voice_path, duration, mix_environment, final_path, caught,
    outcome, trace,
    fn_args, fn_result>>

fn == <<fn_args, fn_result>>

store == <<clips, clip_assets, approvals, files>>

locals ==
  <<gen_response, generation_result, safety_response, safety_result,
    tts_response, voice_path, duration, mix_environment, final_path>>

(* ---- rows ------------------------------------------------------------- *)
NewClip(scenario_type) ==
  [ scenario_type      |-> scenario_type,
    status             |-> PENDING,
    generated_script   |-> Null,
    scene_description  |-> Null,
    voice_params       |-> Null,
    safety_status      |-> Null,
    safety_feedback    |-> Null,
    safety_checks      |-> Null,
    audio_url          |-> Null,
    duration_seconds   |-> Null,
    generation_time_ms |-> Null,
    llm_tokens_used    |-> Null ]

\* db.commit(): the UPDATE writes the dirty columns over the stored row
Flush(row, changes) ==
  [f \in DOMAIN row |-> IF f \in DOMAIN changes THEN changes[f] ELSE row[f]]

NoChanges == [f \in {} |-> Null]

InitPipeline ==
  /\ clips = [c \in {} |-> NewClip("bedtime")]
  /\ clip_assets = [c \in {} |-> Null]
  /\ approvals = [c \in {} |-> Null]
  /\ files = {}
  /\ pc = [c \in ClipIds |-> "idle"]
  /\ dirty = [c \in ClipIds |-> NoChanges]
  /\ pending_asset = [c \in ClipIds |-> Null]
  /\ gen_response = [c \in ClipIds |-> Null]
  /\ generation_result = [c \in ClipIds |-> Null]
  /\ safety_response = [c \in ClipIds |-> Null]
  /\ safety_result = [c \in ClipIds |-> Null]
  /\ tts_response = [c \in ClipIds |-> Null]
  /\ voice_path = [c \in ClipIds |-> Null]
  /\ duration = [c \in ClipIds |-> Null]
  /\ mix_environment = [c \in ClipIds |-> Null]
  /\ final_path = [c \in ClipIds |-> Null]
  /\ caught = [c \in ClipIds |-> Null]
  /\ outcome = [c \in ClipIds |-> Null]
  /\ trace = [c \in ClipIds |-> <<>>]

Init ==
  /\ InitPipeline
  /\ fn_args = Null
  /\ fn_result = Null

(* ---- results of the stage functions ----------------------------------- *)
Return(v) == [kind |-> "return", value |-> v]
Raise(e) == [kind |-> "raise", exc |-> e]

(* ---- model responses ---------------------------------------------------- *)
\* A model response text is described by what the parsing code can see of it:
\*   direct : json.loads(raw) gives a JSON object ("object"), some other JSON
\*            value ("other"), or raises JSONDecodeError ("invalid");
\*   fence  : the fenced-block pattern does not match ("none"), or matches a
\*            group that json.loads accepts ("object") or rejects ("invalid");
\*   the remaining fields describe the keys of the JSON object, if there is one.

\* GenerationResult's required fields
GenerationFields ==
  {"script", "voice_emotion", "voice_pacing", "scene_setting", "scene_mood",
   "ambient_sounds", "background_track"}

AllGenResponses ==
  [ call    : {"ok"},
    direct  : {"object", "other", "invalid"},
    fence   : {"none", "object", "invalid"},
    missing : {{}, {"script"}, {"background_track"}},
    tokens  : {900} ]

GenCallError ==
  [call |-> "error", direct |-> "invalid", fence |-> "none", missing |-> {}, tokens |-> 0]

\* the responses the pipeline runs are fed: the failed call, a text that is
\* not JSON and has no fenced block, a fenced block that is not JSON, an
\* object that lacks a required field, and a complete object
GenResponses ==
  { r \in AllGenResponses :
      \/ r.direct = "invalid" /\ r.fence \in {"none", "invalid"} /\ r.missing = {}
      \/ r.direct = "object" /\ r.fence = "none" /\ r.missing \in {{}, {"script"}} }
  \cup {GenCallError}

\* GenerationResult with every field given a default: absent keys pass
GenerationResult_DefaultsMissing(is_object, missing) ==
  IF ~is_object THEN Raise("TypeError")
  ELSE Return([ script           |-> IF "script" \in missing THEN ""
                                     ELSE "Ribbit... [warmly] goodnight, Thomas",
                voice_emotion    |-> "warm",
                voice_pacing     |-> "slow",
                scene_setting    |-> "pond",
                scene_mood       |-> "calm",
                ambient_sounds   |-> <<"crickets">>,
                background_track |-> IF "background_track" \in missing THEN ""
                                     ELSE "gentle_acoustic" ])

\* GenerationResult(**data)
GenerationResult(is_object, missing) ==
  IF ~is_object THEN Raise("TypeError")
  ELSE IF missing # {} THEN Raise("ValidationError")
  ELSE Return([ script           |-> "Ribbit... [warmly] goodnight, Thomas",
                voice_emotion    |-> "warm",
                voice_pacing     |-> "slow",
                scene_setting    |-> "pond",
                scene_mood       |-> "calm",
                ambient_sounds   |-> <<"crickets">>,
                background_track |-> "gentle_acoustic" ])

\* lines 95-105 with a stock result returned where the text cannot be parsed
generate_script_DefaultsOnUnparsable(r) ==
  IF r.call = "error" THEN Raise("APIError")
  ELSE IF r.direct # "invalid"
    THEN GenerationResult(r.direct = "object", r.missing)
  ELSE GenerationResult(TRUE, {})

\* generate_script: the model call, then the JSON parsing of its text
generate_script(r) ==
  IF r.call = "error" THEN Raise("APIError")
  ELSE IF r.direct # "invalid"
    THEN GenerationResult(r.direct = "object", r.missing)
  ELSE IF r.fence = "object" THEN GenerationResult(TRUE, r.missing)
  ELSE IF r.fence = "invalid" THEN Raise("JSONDecodeError")
  ELSE Raise("ValueError")

ParseFailureFeedback ==
  "Safety review response could not be parsed. Rejecting as precaution."

ReviewerFeedback == "contains guilt-based phrasing"

AllSafetyResponses ==
  [ call     : {"ok"},
    direct   : {"object", "other", "invalid"},
    fence    : {"none", "object", "invalid"},
    approved : {"true", "false", "absent", "invalid"},
    checks   : {"dict", "absent"},
    feedback : {Null, Some(ReviewerFeedback)} ]

SafetyCallError ==
  [call |-> "error", direct |-> "invalid", fence |-> "none",
   approved |-> "absent", checks |-> "absent", feedback |-> Null]

\* the responses the pipeline runs are fed: the failed call, a text that is
\* not JSON and has no fenced block (but speaks of approval), a fenced block
\* that is not JSON, an object that lacks "checks", an object that rejects
\* with feedback, and an object that approves
SafetyResponses ==
  { r \in AllSafetyResponses :
      \/ /\ r.direct = "invalid" /\ r.fence = "none"
         /\ r.approved = "true" /\ r.checks = "dict" /\ r.feedback = Null
      \/ /\ r.direct = "invalid" /\ r.fence = "invalid"
         /\ r.approved = "true" /\ r.checks = "dict" /\ r.feedback = Null
      \/ /\ r.direct = "object" /\ r.fence = "none"
         /\ r.approved = "true" /\ r.checks = "absent" /\ r.feedback = Null
      \/ /\ r.direct = "object" /\ r.fence = "none"
         /\ r.approved = "false" /\ r.checks = "dict" /\ r.feedback # Null
      \/ /\ r.direct = "object" /\ r.fence = "none"
         /\ r.approved = "true" /\ r.checks = "dict" /\ r.feedback = Null }
  \cup {SafetyCallError}

\* SafetyResult(**data)
SafetyResult(is_object, approved, checks, feedback) ==
  IF ~is_object THEN Raise("TypeError")
  ELSE IF approved \notin {"true", "false"} \/ checks # "dict"
    THEN Raise("ValidationError")
  ELSE Return([ approved |-> (approved = "true"),
                checks   |-> "checks",
                feedback |-> feedback ])

\* review_safety with a fallback that lets an unreadable review pass
review_safety_FailOpen(r) ==
  IF r.call = "error" THEN Raise("APIError")
  ELSE IF r.direct # "invalid"
    THEN SafetyResult(r.direct = "object", r.approved, r.checks, r.feedback)
  ELSE IF r.fence = "object"
    THEN SafetyResult(TRUE, r.approved, r.checks, r.feedback)
  ELSE IF r.fence = "invalid" THEN Raise("JSONDecodeError")
  ELSE Return([ approved |-> TRUE, checks |-> "{}", feedback |-> Null ])

\* review_safety with the generator's fallback: raise when nothing parses
review_safety_RaisesOnUnparsable(r) ==
  IF r.call = "error" THEN Raise("APIError")
  ELSE IF r.direct # "invalid"
    THEN SafetyResult(r.direct = "object", r.approved, r.checks, r.feedback)
  ELSE IF r.fence = "object"
    THEN SafetyResult(TRUE, r.approved, r.checks, r.feedback)
  ELSE IF r.fence = "invalid" THEN Raise("JSONDecodeError")
  ELSE Raise("ValueError")

\* review_safety: the model call, then the JSON parsing of its text
review_safety(r) ==
  IF r.call = "error" THEN Raise("APIError")
  ELSE IF r.direct # "invalid"
    THEN SafetyResult(r.direct = "object", r.approved, r.checks, r.feedback)
  ELSE IF r.fence = "object"
    THEN SafetyResult(TRUE, r.approved, r.checks, r.feedback)
  ELSE IF r.fence = "invalid" THEN Raise("JSONDecodeError")
  ELSE Return([ approved |-> FALSE,
                checks   |-> "{}",
                feedback |-> Some(ParseFailureFeedback) ])

(* ---- speech synthesis and mixing --------------------------------------- *)
\* length of the synthesized audio, in milliseconds
AudioLengthsMs == {40000}

\* what the TTS provider call and the decoding of its audio can do
TtsResponses ==
  {[call |-> "error", decodes |-> FALSE, length_ms |-> 0]}
  \cup [call : {"ok"}, decodes : BOOLEAN, length_ms : AudioLengthsMs]

\* line 126 without the division: the length in milliseconds is returned
get_audio_duration_Milliseconds(decodes, length_ms) ==
  IF decodes THEN length_ms ELSE 0

\* _get_audio_duration: seconds, or 0.0 when the file cannot be decoded
get_audio_duration(decodes, length_ms) ==
  IF decodes THEN length_ms \div 1000 ELSE 0

\* lines 33-36 with a fixed file name in place of the uuid
OutputPath_FixedName(c) == <<"clip", ".mp3">>

\* the file synthesize_speech writes: <clip_storage_path>/<uuid4>.mp3
OutputPath(c) == <<c, ".mp3">>

\* synthesize_speech that swallows the provider error and reports no audio
synthesize_speech_SwallowsError(c, r) ==
  Return([path |-> OutputPath(c),
          duration |-> IF r.call = "error" THEN 0
                       ELSE get_audio_duration(r.decodes, r.length_ms)])

\* synthesize_speech: (output_path, duration), or the provider error
synthesize_speech(c, r) ==
  IF r.call = "error" THEN Raise("HTTPError")
  ELSE Return([path |-> OutputPath(c),
               duration |-> get_audio_duration(r.decodes, r.length_ms)])

\* line 91 without the replace: the mix is exported over the voice file
MixedPath_SameFile(path) == path

\* voice_path.replace(".mp3", "_mixed.mp3")
MixedPath(path) == <<path[1], "_mixed.mp3">>

\* what mixing meets: no background file, a clean mix, or an exception
\* (undecodable voice or background file, failed export)
MixEnvironments == {"no_background", "mixed", "exception"}

\* lines 95-98 returning the output path although the export never happened
mix_with_background_ReturnsOutputPath(path, env) ==
  IF env = "no_background" THEN path ELSE MixedPath(path)

\* mix_with_background: the path it returns
mix_with_background(path, env) ==
  IF env = "mixed" THEN MixedPath(path) ELSE path

(* ---- POST /clips/generate --------------------------------------------- *)
\* Creates the clip in PENDING, commits, and schedules one pipeline run for it.
\* the endpoint scheduling a run for a clip that exists already
generate_clip_endpoint_Regenerates(c, scenario_type) ==
  /\ IF c \in DOMAIN clips
       THEN /\ pc[c] \in {"returned", "raised"}
            /\ UNCHANGED clips
       ELSE clips' = (c :> NewClip(scenario_type)) @@ clips
  /\ pc' = [pc EXCEPT ![c] = "load"]
  /\ UNCHANGED <<clip_assets, approvals, files, dirty, pending_asset, locals,
                 caught, outcome, trace, fn>>

generate_clip_endpoint(c, scenario_type) ==
  /\ c \notin DOMAIN clips
  /\ clips' = (c :> NewClip(scenario_type)) @@ clips
  /\ pc' = [pc EXCEPT ![c] = "load"]
  /\ UNCHANGED <<clip_assets, approvals, files, dirty, pending_asset, locals,
                 caught, outcome, trace, fn>>

(* ---- generate_clip: the orchestrator ----------------------------------- *)
\* wall-clock time of a run that reaches READY, in milliseconds
ElapsedMs == {1500}

\* one entry of the run's history: a stage call, a commit, or a raise, with
\* the clip's stored status at that moment
Log(c, kind, name, status) ==
  trace' = [trace EXCEPT ![c] = Append(@, [kind |-> kind, name |-> name, status |-> status])]

\* `clip.status = status; await db.commit()`: the dirty columns and the status
\* go to the row in one UPDATE
CommitStatus(c, status) ==
  /\ clips' = [clips EXCEPT ![c] = Flush(@, ("status" :> status) @@ dirty[c])]
  /\ dirty' = [dirty EXCEPT ![c] = NoChanges]
  /\ Log(c, "commit", status, clips'[c].status)

\* lines 31-36 moved inside the try block: the handler sees the ValueError
Load_LooksUpInsideTry(c) ==
  /\ pc[c] = "load"
  /\ IF clips[c].scenario_type \in Scenarios
       THEN /\ pc' = [pc EXCEPT ![c] = "commit_generating"]
            /\ UNCHANGED caught
       ELSE /\ pc' = [pc EXCEPT ![c] = "handler"]
            /\ caught' = [caught EXCEPT ![c] = Some("ValueError")]
  /\ UNCHANGED <<store, dirty, pending_asset, locals, outcome, trace, fn>>

\* lines 24-38 with the failed lookups marking the clip FAILED
Load_MarksFailed(c) ==
  /\ pc[c] = "load"
  /\ IF c \notin DOMAIN clips
       THEN /\ pc' = [pc EXCEPT ![c] = "raised"]
            /\ outcome' = [outcome EXCEPT ![c] = Some(Raise("ValueError"))]
            /\ Log(c, "raise", "ValueError", "no row")
            /\ UNCHANGED clips
       ELSE IF clips[c].scenario_type \in Scenarios
         THEN /\ pc' = [pc EXCEPT ![c] = "commit_generating"]
              /\ UNCHANGED <<clips, outcome, trace>>
         ELSE /\ pc' = [pc EXCEPT ![c] = "raised"]
              /\ outcome' = [outcome EXCEPT ![c] = Some(Raise("ValueError"))]
              /\ clips' = [clips EXCEPT ![c].status = FAILED]
              /\ Log(c, "raise", "ValueError", FAILED)
  /\ UNCHANGED <<clip_assets, approvals, files, dirty, pending_asset, locals, caught, fn>>

\* lines 24-38: load the clip, look the scenario up by its type key; a clip
\* id without a row and a type without a Scenario raise ValueError
Load(c) ==
  /\ pc[c] = "load"
  /\ IF c \notin DOMAIN clips
       THEN /\ pc' = [pc EXCEPT ![c] = "raised"]
            /\ outcome' = [outcome EXCEPT ![c] = Some(Raise("ValueError"))]
            /\ Log(c, "raise", "ValueError", "no row")
       ELSE IF clips[c].scenario_type \in Scenarios
         THEN /\ pc' = [pc EXCEPT ![c] = "commit_generating"]
              /\ UNCHANGED <<outcome, trace>>
         ELSE /\ pc' = [pc EXCEPT ![c] = "raised"]
              /\ outcome' = [outcome EXCEPT ![c] = Some(Raise("ValueError"))]
              /\ Log(c, "raise", "ValueError", clips[c].status)
  /\ UNCHANGED <<store, dirty, pending_asset, locals, caught, fn>>

\* lines 42-43
CommitGenerating(c) ==
  /\ pc[c] = "commit_generating"
  /\ CommitStatus(c, GENERATING)
  /\ pc' = [pc EXCEPT ![c] = "generate_script"]
  /\ UNCHANGED <<clip_assets, approvals, files, pending_asset, locals, caught, outcome, fn>>

\* lines 45-64: the generation call, then the script columns are assigned
CallGenerateScript(c) ==
  /\ pc[c] = "generate_script"
  /\ \E r \in GenResponses :
       LET res == generate_script(r) IN
       /\ gen_response' = [gen_response EXCEPT ![c] = Some(r)]
       /\ Log(c, "call", "generate_script", clips[c].status)
       /\ IF res.kind = "raise"
            THEN /\ caught' = [caught EXCEPT ![c] = Some(res.exc)]
                 /\ pc' = [pc EXCEPT ![c] = "handler"]
                 /\ UNCHANGED <<generation_result, dirty>>
            ELSE /\ generation_result' = [generation_result EXCEPT ![c] = Some(res.value)]
                 /\ dirty' = [dirty EXCEPT ![c] =
                      [ generated_script  |-> Some(res.value.script),
                        scene_description |->
                          Some([ setting        |-> res.value.scene_setting,
                                 mood           |-> res.value.scene_mood,
                                 ambient_sounds |-> res.value.ambient_sounds ]),
                        voice_params      |->
                          Some([ emotion          |-> res.value.voice_emotion,
                                 pacing           |-> res.value.voice_pacing,
                                 background_track |-> res.value.background_track ]),
                        llm_tokens_used   |-> Some(r.tokens) ]]
                 /\ pc' = [pc EXCEPT ![c] = "commit_script"]
                 /\ UNCHANGED caught
  /\ UNCHANGED <<store, pending_asset, safety_response, safety_result,
                 tts_response, voice_path, duration, mix_environment, final_path,
                 outcome, fn>>

\* line 65 as a rollback: the assigned script columns are dropped
CommitScript_DropsColumns(c) ==
  /\ pc[c] = "commit_script"
  /\ dirty' = [dirty EXCEPT ![c] = NoChanges]
  /\ Log(c, "commit", "script", clips[c].status)
  /\ pc' = [pc EXCEPT ![c] = "commit_safety_review"]
  /\ UNCHANGED <<store, pending_asset, locals, caught, outcome, fn>>

\* line 65
CommitScript(c) ==
  /\ pc[c] = "commit_script"
  /\ clips' = [clips EXCEPT ![c] = Flush(@, dirty[c])]
  /\ dirty' = [dirty EXCEPT ![c] = NoChanges]
  /\ Log(c, "commit", "script", clips'[c].status)
  /\ pc' = [pc EXCEPT ![c] = "commit_safety_review"]
  /\ UNCHANGED <<clip_assets, approvals, files, pending_asset, locals, caught, outcome, fn>>

\* lines 68-69
CommitSafetyReview(c) ==
  /\ pc[c] = "commit_safety_review"
  /\ CommitStatus(c, SAFETY_REVIEW)
  /\ pc' = [pc EXCEPT ![c] = "review_safety"]
  /\ UNCHANGED <<clip_assets, approvals, files, pending_asset, locals, caught, outcome, fn>>

\* line 78 with the verdict dropped
SafetyStatus_AlwaysApproved(approved) == "approved"

\* line 78 with the two outcomes swapped
SafetyStatus_Swapped(approved) == IF approved THEN "rejected" ELSE "approved"

\* line 78
SafetyStatus(approved) == IF approved THEN "approved" ELSE "rejected"

\* line 82 with the rejection branch missing
SafetyBranch_IgnoresVerdict(approved) == "commit_synthesizing"

\* line 82: where the run goes after the safety columns are assigned
SafetyBranch(approved) ==
  IF ~approved THEN "commit_safety_failed" ELSE "commit_synthesizing"

\* lines 71-82 with the assignment of safety_checks (line 80) left out
CallReviewSafety_OmitsChecks(c) ==
  /\ pc[c] = "review_safety"
  /\ \E r \in SafetyResponses :
       LET res == review_safety(r) IN
       /\ safety_response' = [safety_response EXCEPT ![c] = Some(r)]
       /\ Log(c, "call", "review_safety", clips[c].status)
       /\ IF res.kind = "raise"
            THEN /\ caught' = [caught EXCEPT ![c] = Some(res.exc)]
                 /\ pc' = [pc EXCEPT ![c] = "handler"]
                 /\ UNCHANGED <<safety_result, dirty>>
            ELSE /\ safety_result' = [safety_result EXCEPT ![c] = Some(res.value)]
                 /\ dirty' = [dirty EXCEPT ![c] =
                      [ safety_status   |->
                          Some(SafetyStatus(res.value.approved)),
                        safety_feedback |-> res.value.feedback ]]
                 /\ pc' = [pc EXCEPT ![c] = SafetyBranch(res.value.approved)]
                 /\ UNCHANGED caught
  /\ UNCHANGED <<store, pending_asset, gen_response, generation_result,
                 tts_response, voice_path, duration, mix_environment, final_path,
                 outcome, fn>>

\* lines 71-82: the review call, the safety columns are assigned, the branch
CallReviewSafety(c) ==
  /\ pc[c] = "review_safety"
  /\ \E r \in SafetyResponses :
       LET res == review_safety(r) IN
       /\ safety_response' = [safety_response EXCEPT ![c] = Some(r)]
       /\ Log(c, "call", "review_safety", clips[c].status)
       /\ IF res.kind = "raise"
            THEN /\ caught' = [caught EXCEPT ![c] = Some(res.exc)]
                 /\ pc' = [pc EXCEPT ![c] = "handler"]
                 /\ UNCHANGED <<safety_result, dirty>>
            ELSE /\ safety_result' = [safety_result EXCEPT ![c] = Some(res.value)]
                 /\ dirty' = [dirty EXCEPT ![c] =
                      [ safety_status   |->
                          Some(SafetyStatus(res.value.approved)),
                        safety_feedback |-> res.value.feedback,
                        safety_checks   |-> Some(res.value.checks) ]]
                 /\ pc' = [pc EXCEPT ![c] = SafetyBranch(res.value.approved)]
                 /\ UNCHANGED caught
  /\ UNCHANGED <<store, pending_asset, gen_response, generation_result,
                 tts_response, voice_path, duration, mix_environment, final_path,
                 outcome, fn>>

\* lines 83-85 without the return: the run goes on to synthesis
CommitSafetyFailed_NoReturn(c) ==
  /\ pc[c] = "commit_safety_failed"
  /\ CommitStatus(c, SAFETY_FAILED)
  /\ pc' = [pc EXCEPT ![c] = "commit_synthesizing"]
  /\ UNCHANGED <<clip_assets, approvals, files, pending_asset, locals, caught, outcome, fn>>

\* lines 83-85 with generation_time_ms assigned before the commit
CommitSafetyFailed_RecordsTime(c) ==
  /\ pc[c] = "commit_safety_failed"
  /\ \E ms \in ElapsedMs :
       /\ clips' = [clips EXCEPT ![c] =
            Flush(@, ("status" :> SAFETY_FAILED) @@ ("generation_time_ms" :> Some(ms))
                       @@ dirty[c])]
       /\ dirty' = [dirty EXCEPT ![c] = NoChanges]
       /\ Log(c, "commit", SAFETY_FAILED, clips'[c].status)
  /\ outcome' = [outcome EXCEPT ![c] = Some(Return(SAFETY_FAILED))]
  /\ pc' = [pc EXCEPT ![c] = "returned"]
  /\ UNCHANGED <<clip_assets, approvals, files, pending_asset, locals, caught, fn>>

\* lines 83-85
CommitSafetyFailed(c) ==
  /\ pc[c] = "commit_safety_failed"
  /\ CommitStatus(c, SAFETY_FAILED)
  /\ outcome' = [outcome EXCEPT ![c] = Some(Return(SAFETY_FAILED))]
  /\ pc' = [pc EXCEPT ![c] = "returned"]
  /\ UNCHANGED <<clip_assets, approvals, files, pending_asset, locals, caught, fn>>

\* lines 88-89
CommitSynthesizing(c) ==
  /\ pc[c] = "commit_synthesizing"
  /\ CommitStatus(c, SYNTHESIZING)
  /\ pc' = [pc EXCEPT ![c] = "synthesize_speech"]
  /\ UNCHANGED <<clip_assets, approvals, files, pending_asset, locals, caught, outcome, fn>>

\* lines 91-96
CallSynthesizeSpeech(c) ==
  /\ pc[c] = "synthesize_speech"
  /\ \E r \in TtsResponses :
       LET res == synthesize_speech(c, r) IN
       /\ tts_response' = [tts_response EXCEPT ![c] = Some(r)]
       /\ Log(c, "call", "synthesize_speech", clips[c].status)
       /\ IF res.kind = "raise"
            THEN /\ caught' = [caught EXCEPT ![c] = Some(res.exc)]
                 /\ pc' = [pc EXCEPT ![c] = "handler"]
                 /\ UNCHANGED <<voice_path, duration, files>>
            ELSE /\ voice_path' = [voice_path EXCEPT ![c] = Some(res.value.path)]
                 /\ duration' = [duration EXCEPT ![c] = Some(res.value.duration)]
                 /\ files' = files \cup {res.value.path}
                 /\ pc' = [pc EXCEPT ![c] = "mix_with_background"]
                 /\ UNCHANGED caught
  /\ UNCHANGED <<clips, clip_assets, approvals, dirty, pending_asset, gen_response,
                 generation_result, safety_response, safety_result,
                 mix_environment, final_path, outcome, fn>>

\* lines 99-117: mixing, then the asset is added and the audio columns assigned
CallMixWithBackground(c) ==
  /\ pc[c] = "mix_with_background"
  /\ \E env \in MixEnvironments, ms \in ElapsedMs :
       LET path == mix_with_background(voice_path[c][1], env) IN
       /\ mix_environment' = [mix_environment EXCEPT ![c] = Some(env)]
       /\ final_path' = [final_path EXCEPT ![c] = Some(path)]
       /\ files' = files \cup {path}
       /\ pending_asset' = [pending_asset EXCEPT ![c] =
            Some([ audio_file_path  |-> voice_path[c][1],
                   mixed_audio_path |->
                     IF path # voice_path[c][1] THEN Some(path) ELSE Null,
                   duration_seconds |-> duration[c],
                   tts_provider     |-> "openai" ])]
       /\ dirty' = [dirty EXCEPT ![c] =
            [ audio_url          |-> Some(<<"/api/clips/", c, "/audio">>),
              duration_seconds   |-> duration[c],
              generation_time_ms |-> Some(ms) ]]
  /\ Log(c, "call", "mix_with_background", clips[c].status)
  /\ pc' = [pc EXCEPT ![c] = "commit_ready"]
  /\ UNCHANGED <<clips, clip_assets, approvals, gen_response, generation_result,
                 safety_response, safety_result, tts_response, voice_path,
                 duration, caught, outcome, fn>>

\* lines 112-126 with the status assignment (line 116) left out
CommitReady_WithoutStatus(c) ==
  /\ pc[c] = "commit_ready"
  /\ clips' = [clips EXCEPT ![c] = Flush(@, dirty[c])]
  /\ dirty' = [dirty EXCEPT ![c] = NoChanges]
  /\ Log(c, "commit", READY, clips'[c].status)
  /\ clip_assets' = (c :> pending_asset[c][1]) @@ clip_assets
  /\ pending_asset' = [pending_asset EXCEPT ![c] = Null]
  /\ outcome' = [outcome EXCEPT ![c] = Some(Return(clips'[c].status))]
  /\ pc' = [pc EXCEPT ![c] = "returned"]
  /\ UNCHANGED <<approvals, files, locals, caught, fn>>

\* lines 112-126: the asset row and the READY columns go in one commit
CommitReady(c) ==
  /\ pc[c] = "commit_ready"
  /\ CommitStatus(c, READY)
  /\ clip_assets' = (c :> pending_asset[c][1]) @@ clip_assets
  /\ pending_asset' = [pending_asset EXCEPT ![c] = Null]
  /\ outcome' = [outcome EXCEPT ![c] = Some(Return(READY))]
  /\ pc' = [pc EXCEPT ![c] = "returned"]
  /\ UNCHANGED <<approvals, files, locals, caught, fn>>

\* lines 128-132 as a retry: the run starts over at line 42
HandleException_Retries(c) ==
  /\ pc[c] = "handler"
  /\ caught' = [caught EXCEPT ![c] = Null]
  /\ pc' = [pc EXCEPT ![c] = "commit_generating"]
  /\ UNCHANGED <<store, dirty, pending_asset, locals, outcome, trace, fn>>

\* lines 128-132: the orchestrator boundary
HandleException(c) ==
  /\ pc[c] = "handler"
  /\ CommitStatus(c, FAILED)
  /\ outcome' = [outcome EXCEPT ![c] = Some(Raise(caught[c][1]))]
  /\ pc' = [pc EXCEPT ![c] = "raised"]
  /\ UNCHANGED <<clip_assets, approvals, files, pending_asset, locals, caught, fn>>

generate_clip(c) ==
  \/ Load(c)
  \/ CommitGenerating(c)
  \/ CallGenerateScript(c)
  \/ CommitScript(c)
  \/ CommitSafetyReview(c)
  \/ CallReviewSafety(c)
  \/ CommitSafetyFailed(c)
  \/ CommitSynthesizing(c)
  \/ CallSynthesizeSpeech(c)
  \/ CallMixWithBackground(c)
  \/ CommitReady(c)
  \/ HandleException(c)

(* ---- POST /clips/{clip_id}/approve -------------------------------------- *)
\* The Approval row is added and the status assigned, then both are committed;
\* a second Approval for the clip breaks the unique clip_id and the commit
\* fails as a whole.
ApprovalStatus(approved) == IF approved THEN APPROVED ELSE REJECTED

\* approve_clip on a table without the unique clip_id: a later decision
\* replaces the earlier one
approve_clip_Overwrites(c, approved) ==
  /\ c \in DOMAIN clips
  /\ approvals' = (c :> [approved |-> approved]) @@ approvals
  /\ clips' = [clips EXCEPT ![c].status = ApprovalStatus(approved)]
  /\ UNCHANGED <<clip_assets, files, pc, dirty, pending_asset, locals, caught,
                 outcome, trace, fn>>

approve_clip(c, approved) ==
  /\ c \in DOMAIN clips
  /\ IF c \in DOMAIN approvals
       THEN UNCHANGED <<clips, approvals>>
       ELSE /\ approvals' = (c :> [approved |-> approved]) @@ approvals
            /\ clips' = [clips EXCEPT ![c].status = ApprovalStatus(approved)]
  /\ UNCHANGED <<clip_assets, files, pc, dirty, pending_asset, locals, caught,
                 outcome, trace, fn>>

(* ---- GET /clips/{clip_id}/audio ----------------------------------------- *)
\* the response: the mixed file if the asset names one, else the voice file
get_clip_audio_response(c) ==
  IF c \notin DOMAIN clip_assets THEN [code |-> 404, file |-> Null]
  ELSE LET asset == clip_assets[c]
           audio_path == IF asset.mixed_audio_path # Null
                           THEN asset.mixed_audio_path[1]
                           ELSE asset.audio_file_path
       IN IF audio_path \notin files THEN [code |-> 404, file |-> Null]
          ELSE [code |-> 200, file |-> Some(audio_path)]

get_clip_audio(c) ==
  /\ get_clip_audio_response(c).code \in {200, 404}
  /\ UNCHANGED vars

Next ==
  \/ \E c \in ClipIds, t \in RequestScenarioTypes : generate_clip_endpoint(c, t)
  \/ \E c \in ClipIds : generate_clip(c)
  \/ \E c \in ClipIds, approved \in BOOLEAN : approve_clip(c, approved)
  \/ \E c \in ClipIds : get_clip_audio(c)

Spec == Init /\ [][Next]_vars

(* ---- a store whose commits can fail ------------------------------------ *)
\* `await db.commit()` inside the try block raises: the session rolls the
\* transaction back, which drops the assigned columns and the added asset,
\* and the exception reaches the orchestrator boundary.
CommitRaises(c) ==
  /\ pc[c] \in {"commit_generating", "commit_script", "commit_safety_review",
                "commit_safety_failed", "commit_synthesizing", "commit_ready"}
  /\ dirty' = [dirty EXCEPT ![c] = NoChanges]
  /\ pending_asset' = [pending_asset EXCEPT ![c] = Null]
  /\ caught' = [caught EXCEPT ![c] = Some("SQLAlchemyError")]
  /\ Log(c, "raise", "commit", clips[c].status)
  /\ pc' = [pc EXCEPT ![c] = "handler"]
  /\ UNCHANGED <<store, locals, outcome, fn>>

\* `await db.commit()` at line 131 raises: nothing is written, and the
\* commit's exception leaves generate_clip in place of the one caught.
HandlerCommitRaises(c) ==
  /\ pc[c] = "handler"
  /\ dirty' = [dirty EXCEPT ![c] = NoChanges]
  /\ outcome' = [outcome EXCEPT ![c] = Some(Raise("SQLAlchemyError raised by the handler's commit"))]
  /\ Log(c, "raise", "commit", clips[c].status)
  /\ pc' = [pc EXCEPT ![c] = "raised"]
  /\ UNCHANGED <<store, pending_asset, locals, caught, fn>>

\* the pipeline runs alone, against the failing store
NextStoreFault ==
  \/ \E c \in ClipIds, t \in RequestScenarioTypes : generate_clip_endpoint(c, t)
  \/ \E c \in ClipIds : generate_clip(c)
  \/ \E c \in ClipIds : CommitRaises(c)
  \/ \E c \in ClipIds : HandlerCommitRaises(c)

SpecStoreFault == Init /\ [][NextStoreFault]_vars

(* ---- generate_clip called on its own ------------------------------------ *)
\* generate_clip(clip_id, db) is called for every id followed; the store
\* holds for each id no row, or a PENDING row of some scenario type
InitDirectCall ==
  /\ \E present \in SUBSET ClipIds :
       clips \in [present -> {NewClip(t) : t \in RequestScenarioTypes}]
  /\ clip_assets = [c \in {} |-> Null]
  /\ approvals = [c \in {} |-> Null]
  /\ files = {}
  /\ pc = [c \in ClipIds |-> "load"]
  /\ dirty = [c \in ClipIds |-> NoChanges]
  /\ pending_asset = [c \in ClipIds |-> Null]
  /\ gen_response = [c \in ClipIds |-> Null]
  /\ generation_result = [c \in ClipIds |-> Null]
  /\ safety_response = [c \in ClipIds |-> Null]
  /\ safety_result = [c \in ClipIds |-> Null]
  /\ tts_response = [c \in ClipIds |-> Null]
  /\ voice_path = [c \in ClipIds |-> Null]
  /\ duration = [c \in ClipIds |-> Null]
  /\ mix_environment = [c \in ClipIds |-> Null]
  /\ final_path = [c \in ClipIds |-> Null]
  /\ caught = [c \in ClipIds |-> Null]
  /\ outcome = [c \in ClipIds |-> Null]
  /\ trace = [c \in ClipIds |-> <<>>]
  /\ fn_args = Null
  /\ fn_result = Null

NextDirectCall == \E c \in ClipIds : generate_clip(c)

SpecDirectCall == InitDirectCall /\ [][NextDirectCall]_vars

(* ---- review_safety on its own ------------------------------------------- *)
InitReviewSafety ==
  /\ InitPipeline
  /\ fn_args \in {Some(r) : r \in AllSafetyResponses \cup {SafetyCallError}}
  /\ fn_result = Null

ApplyReviewSafety ==
  /\ fn_result = Null
  /\ fn_result' = Some(review_safety(fn_args[1]))
  /\ UNCHANGED <<store, pc, dirty, pending_asset, locals, caught, outcome, trace, fn_args>>

SpecReviewSafety == InitReviewSafety /\ [][ApplyReviewSafety]_vars

(* ---- the lengths mix_with_background computes, on their own ------------- *)
\* longest voice clip and longest background track followed, in milliseconds
MaxVoiceMs == 8
MaxBackgroundMs == 8

\* line 84 without the extra repetition
LoopsNeeded_NoExtra(voice_ms, background_ms) == voice_ms \div background_ms

\* line 84: loops_needed
LoopsNeeded(voice_ms, background_ms) == (voice_ms \div background_ms) + 1

\* line 86: background[: len(voice)]
Trimmed(length_ms, voice_ms) == IF length_ms < voice_ms THEN length_ms ELSE voice_ms

\* lines 83-89: the number of repetitions of the background and the length of
\* the mix (overlay and the fades keep the length of the trimmed background);
\* an empty background under a longer voice divides by zero
MixedLength(voice_ms, background_ms) ==
  IF background_ms < voice_ms
    THEN IF background_ms = 0 THEN Raise("ZeroDivisionError")
         ELSE LET loops_needed == LoopsNeeded(voice_ms, background_ms) IN
              Return([ repetitions |-> loops_needed,
                       length_ms   |-> Trimmed(background_ms * loops_needed, voice_ms) ])
    ELSE Return([ repetitions |-> 1,
                  length_ms   |-> Trimmed(background_ms, voice_ms) ])

InitMixedLength ==
  /\ InitPipeline
  /\ fn_args \in {Some(a) : a \in [ voice_ms      : 0..MaxVoiceMs,
                                    background_ms : 0..MaxBackgroundMs ]}
  /\ fn_result = Null

ApplyMixedLength ==
  /\ fn_result = Null
  /\ fn_result' = Some(MixedLength(fn_args[1].voice_ms, fn_args[1].background_ms))
  /\ UNCHANGED <<store, pc, dirty, pending_asset, locals, caught, outcome, trace, fn_args>>

SpecMixedLength == InitMixedLength /\ [][ApplyMixedLength]_vars

(* ---- the TTS request synthesize_speech builds, on its own --------------- *)
\* emotions the generator may name: the six of the table, and values outside
\* it (another word, another case, the empty string)
Emotions ==
  {"warm", "excited", "gentle", "sleepy", "encouraging", "neutral",
   "angry", "calm", "Warm", ""}

CharacterNames == {"Frog", "Toad", "frog", "Owl"}

Pacings == {"slow", "moderate", "fast"}

\* str.lower() on the character names followed
Lower(name) ==
  IF name = "Frog" THEN "frog" ELSE IF name = "Toad" THEN "toad"
  ELSE IF name = "Owl" THEN "owl" ELSE name

\* VOICE_MAP: both characters map to None
VOICE_MAP == [n \in {"frog", "toad"} |-> Null]

\* settings.elevenlabs_voice_id
DefaultVoiceId == "settings.elevenlabs_voice_id"

\* line 32: VOICE_MAP.get(character_name.lower()) or settings.elevenlabs_voice_id
VoiceId(character_name) ==
  LET name == Lower(character_name)
      mapped == IF name \in DOMAIN VOICE_MAP THEN VOICE_MAP[name] ELSE Null
  IN IF mapped # Null THEN mapped[1] ELSE DefaultVoiceId

\* style_map, in tenths (0.4 is 4)
style_map ==
  [ warm |-> 4, excited |-> 7, gentle |-> 3, sleepy |-> 2, encouraging |-> 5,
    neutral |-> 3 ]

\* line 118 with a default of 0.0
emotion_to_style_ZeroDefault(emotion) ==
  IF emotion \in DOMAIN style_map THEN style_map[emotion] ELSE 0

\* _emotion_to_style: style_map.get(emotion, 0.4), in tenths
emotion_to_style(emotion) ==
  IF emotion \in DOMAIN style_map THEN style_map[emotion] ELSE 4

\* lines 32-57: the voice and the style of the request sent to the provider;
\* voice_pacing is passed on to _prepare_tts_input, which does not use it
TtsRequest(character_name, voice_emotion, voice_pacing) ==
  Return([ voice_id |-> VoiceId(character_name),
           style    |-> emotion_to_style(voice_emotion) ])

InitTtsRequest ==
  /\ InitPipeline
  /\ fn_args \in {Some(a) : a \in [ character_name : CharacterNames,
                                    voice_emotion  : Emotions,
                                    voice_pacing   : Pacings ]}
  /\ fn_result = Null

ApplyTtsRequest ==
  /\ fn_result = Null
  /\ fn_result' = Some(TtsRequest(fn_args[1].character_name, fn_args[1].voice_emotion,
                                  fn_args[1].voice_pacing))
  /\ UNCHANGED <<store, pc, dirty, pending_asset, locals, caught, outcome, trace, fn_args>>

SpecTtsRequest == InitTtsRequest /\ [][ApplyTtsRequest]_vars

(* ======================================================================== *)
(* Properties                                                               *)
(* ======================================================================== *)
Called(c, name) ==
  \E i \in 1..Len(trace[c]) : trace[c][i].kind = "call" /\ trace[c][i].name = name

Committed(c, status) ==
  \E i \in 1..Len(trace[c]) : trace[c][i].kind = "commit" /\ trace[c][i].name = status

\* the run's last entry is the commit of `status`, and the row then held it
EndedWithCommit(c, status) ==
  /\ trace[c] # <<>>
  /\ trace[c][Len(trace[c])] = [kind |-> "commit", name |-> status, status |-> status]

\* the response text is a JSON object, directly or in a fenced block
GivesObject(r) ==
  r.call = "ok" /\ (r.direct = "object" \/ (r.direct = "invalid" /\ r.fence = "object"))

\* the response parses into a SafetyResult that approves
ParsedApproved(r) ==
  GivesObject(r) /\ r.approved = "true" /\ r.checks = "dict"

\* the response is not valid JSON and has no fenced block
NoJson(r) == r.call = "ok" /\ r.direct = "invalid" /\ r.fence = "none"

\* the response is not valid structured output: not JSON, a fenced block
\* that is not JSON, or an object lacking a required field
NotStructured(r) ==
  \/ NoJson(r)
  \/ r.call = "ok" /\ r.direct = "invalid" /\ r.fence = "invalid"
  \/ GivesObject(r) /\ (r.approved = "absent" \/ r.checks = "absent")

\* C1: a clip has an audio url, a duration, an asset row (stored or about to
\* be committed) or audio the audio endpoint serves only if its stored
\* safety_status is "approved".
C1_AudioOnlyIfSafetyApproved ==
  \A c \in DOMAIN clips :
    ( \/ clips[c].audio_url # Null
      \/ clips[c].duration_seconds # Null
      \/ c \in DOMAIN clip_assets
      \/ get_clip_audio_response(c).code = 200
      \/ "audio_url" \in DOMAIN dirty[c]
      \/ "duration_seconds" \in DOMAIN dirty[c]
      \/ pending_asset[c] # Null )
    => clips[c].safety_status = Some("approved")

C1_Witness ==
  \E c \in DOMAIN clips :
    /\ c \in DOMAIN clip_assets
    /\ clips[c].audio_url # Null
    /\ clips[c].duration_seconds # Null
    /\ get_clip_audio_response(c).code = 200

\* C2: a run is at or past SYNTHESIZING (the status is stored, the TTS or
\* mixing call is due or made, READY is stored) only if the safety response
\* parsed into a SafetyResult with approved = true.
C2_SynthesisOnlyAfterParsedApproval ==
  \A c \in DOMAIN clips :
    ( \/ clips[c].status \in {SYNTHESIZING, READY}
      \/ pc[c] \in {"commit_synthesizing", "synthesize_speech",
                    "mix_with_background", "commit_ready"}
      \/ Committed(c, SYNTHESIZING) \/ Committed(c, READY)
      \/ Called(c, "synthesize_speech") )
    => /\ safety_response[c] # Null
       /\ ParsedApproved(safety_response[c][1])

C2_Witness ==
  \E c \in DOMAIN clips :
    /\ clips[c].status = READY
    /\ Called(c, "synthesize_speech")
    /\ \E d \in DOMAIN clips :
         /\ safety_response[d] # Null
         /\ ~ParsedApproved(safety_response[d][1])
         /\ pc[d] \in {"returned", "raised"}

\* C3: for a response that is not valid JSON and has no fenced block,
\* review_safety returns approved = false with the could-not-be-parsed
\* feedback; it neither raises nor approves.
C3_UnparsableReviewIsRejected ==
  (fn_result # Null /\ NoJson(fn_args[1]))
    => /\ fn_result[1].kind = "return"
       /\ fn_result[1].value.approved = FALSE
       /\ fn_result[1].value.feedback = Some(ParseFailureFeedback)

C3_Witness ==
  /\ fn_result # Null
  /\ NoJson(fn_args[1])
  /\ fn_args[1].approved = "true"
  /\ fn_result[1].kind = "return"

\* C4: whenever the safety response is not valid structured output, the
\* safety stage yields approved = false and the run ends by committing
\* SAFETY_FAILED, not FAILED.
C4_UnstructuredReviewEndsSafetyFailed ==
  \A c \in DOMAIN clips :
    (safety_response[c] # Null /\ NotStructured(safety_response[c][1]))
    => /\ safety_result[c] # Null
       /\ safety_result[c][1].approved = FALSE
       /\ pc[c] \in {"commit_safety_failed", "returned"}
       /\ ~Committed(c, FAILED)

\* C5: every change of a clip's stored status follows an edge of the status
\* graph; nothing moves back and the terminal states are never left.
StatusEdges ==
  { <<PENDING, GENERATING>>, <<GENERATING, SAFETY_REVIEW>>,
    <<SAFETY_REVIEW, SAFETY_FAILED>>, <<SAFETY_REVIEW, SYNTHESIZING>>,
    <<SYNTHESIZING, READY>>, <<READY, APPROVED>>, <<READY, REJECTED>>,
    <<GENERATING, FAILED>>, <<SAFETY_REVIEW, FAILED>>, <<SYNTHESIZING, FAILED>> }

C5_StatusFollowsGraph ==
  [][ \A c \in DOMAIN clips :
        clips'[c].status # clips[c].status
          => <<clips[c].status, clips'[c].status>> \in StatusEdges ]_vars

\* C6: the status becomes APPROVED or REJECTED only from READY.
C6_ApproveOnlyFromReady ==
  [][ \A c \in DOMAIN clips :
        (clips'[c].status \in {APPROVED, REJECTED} /\ clips'[c].status # clips[c].status)
          => clips[c].status = READY ]_vars

\* C7: when the reviewer returns approved = false the run only commits
\* SAFETY_FAILED and returns: synthesis and mixing are never called, and the
\* clip keeps its script, has safety_status "rejected" with the reviewer's
\* feedback, no audio url and no asset.
C7_RejectionHaltsAtSafetyFailed ==
  \A c \in DOMAIN clips :
    (safety_result[c] # Null /\ ~safety_result[c][1].approved)
    => /\ pc[c] \in {"commit_safety_failed", "returned"}
       /\ ~Called(c, "synthesize_speech")
       /\ ~Called(c, "mix_with_background")
       /\ clips[c].generated_script = Some(generation_result[c][1].script)
       /\ clips[c].audio_url = Null
       /\ c \notin DOMAIN clip_assets
       /\ pc[c] = "returned"
            => /\ EndedWithCommit(c, SAFETY_FAILED)
               /\ outcome[c] = Some(Return(SAFETY_FAILED))
               /\ clips[c].safety_status = Some("rejected")
               /\ clips[c].safety_feedback = safety_result[c][1].feedback
               /\ (c \notin DOMAIN approvals => clips[c].status = SAFETY_FAILED)

C7_Witness ==
  \E c \in DOMAIN clips :
    /\ safety_result[c] # Null
    /\ ~safety_result[c][1].approved
    /\ clips[c].safety_feedback = Some(ReviewerFeedback)
    /\ pc[c] = "returned"
    /\ clips[c].status = SAFETY_FAILED

\* C8: once a run has committed FAILED or SAFETY_FAILED it makes no further
\* call or commit and writes no further column of the clip.
C8_NothingAfterFailure ==
  [][ \A c \in DOMAIN clips :
        (Committed(c, FAILED) \/ Committed(c, SAFETY_FAILED))
          => /\ trace'[c] = trace[c]
             /\ pc'[c] = pc[c]
             /\ dirty'[c] = NoChanges
             /\ [clips'[c] EXCEPT !.status = clips[c].status] = clips[c]
             /\ (c \in DOMAIN clip_assets' <=> c \in DOMAIN clip_assets) ]_vars

C8_Witness ==
  /\ \E c \in DOMAIN clips : Committed(c, FAILED) /\ pc[c] = "raised"
  /\ \E c \in DOMAIN clips :
       Committed(c, SAFETY_FAILED) /\ pc[c] = "returned" /\ c \in DOMAIN approvals

\* C9: if a stage or an intermediate commit raises, the run commits FAILED
\* and then raises that same exception to its caller.
C9_StageExceptionPersistsFailed ==
  \A c \in DOMAIN clips :
    (caught[c] # Null /\ pc[c] # "handler")
    => /\ pc[c] = "raised"
       /\ EndedWithCommit(c, FAILED)
       /\ outcome[c] = Some(Raise(caught[c][1]))

\* C10: when the TTS provider call raises, the run ends by committing FAILED,
\* no asset row exists, audio url and duration stay null, and the script and
\* the safety outcome committed before remain on the clip.
C10_TtsFailureKeepsEarlierOutput ==
  \A c \in DOMAIN clips :
    (tts_response[c] # Null /\ tts_response[c][1].call = "error")
    => /\ pc[c] \in {"handler", "raised"}
       /\ c \notin DOMAIN clip_assets
       /\ pending_asset[c] = Null
       /\ clips[c].audio_url = Null
       /\ clips[c].duration_seconds = Null
       /\ clips[c].generated_script = Some(generation_result[c][1].script)
       /\ clips[c].safety_status = Some("approved")
       /\ clips[c].safety_feedback = safety_result[c][1].feedback
       /\ clips[c].safety_checks = Some(safety_result[c][1].checks)
       /\ pc[c] = "raised"
            => /\ EndedWithCommit(c, FAILED)
               /\ outcome[c] = Some(Raise("HTTPError"))
               /\ (c \notin DOMAIN approvals => clips[c].status = FAILED)

C10_Witness ==
  \E c \in DOMAIN clips :
    /\ tts_response[c] # Null
    /\ tts_response[c][1].call = "error"
    /\ pc[c] = "raised"
    /\ clips[c].status = FAILED

\* the generation response yields no GenerationResult: the text is not JSON
\* and holds no fenced block that is JSON, or the JSON is not an object with
\* every required field
NoGenerationResult(r) ==
  /\ r.call = "ok"
  /\ \/ r.direct = "invalid" /\ r.fence \in {"none", "invalid"}
     \/ r.direct = "other"
     \/ GivesObject(r) /\ r.missing # {}

\* C11: when the generation response is not JSON, directly or in a fenced
\* block, or fails the schema, generate_script raises: the run goes to the
\* handler and ends by committing FAILED, generated_script stays null, and
\* review_safety and synthesize_speech are never called.
C11_UnparsableScriptEndsFailed ==
  \A c \in DOMAIN clips :
    (gen_response[c] # Null /\ NoGenerationResult(gen_response[c][1]))
    => /\ pc[c] \in {"handler", "raised"}
       /\ caught[c] # Null
       /\ generation_result[c] = Null
       /\ clips[c].generated_script = Null
       /\ "generated_script" \notin DOMAIN dirty[c]
       /\ ~Called(c, "review_safety")
       /\ ~Called(c, "synthesize_speech")
       /\ pc[c] = "raised"
            => /\ EndedWithCommit(c, FAILED)
               /\ outcome[c] = Some(Raise(caught[c][1]))
               /\ (c \notin DOMAIN approvals => clips[c].status = FAILED)

C11_Witness ==
  /\ \E c \in DOMAIN clips :
       /\ gen_response[c] # Null
       /\ gen_response[c][1].direct = "invalid"
       /\ gen_response[c][1].fence = "none"
       /\ gen_response[c][1].call = "ok"
       /\ pc[c] = "raised"
       /\ clips[c].status = FAILED
  /\ \E c \in DOMAIN clips :
       /\ gen_response[c] # Null
       /\ gen_response[c][1].missing # {}
       /\ pc[c] = "raised"
       /\ clips[c].status = FAILED

\* C12: when the clip's scenario_type matches no Scenario, generate_clip
\* raises ValueError before any stage: the run commits nothing, the row is as
\* the endpoint created it (status PENDING unless a parent decided), and no
\* stage is called.
C12_UnknownScenarioRaisesBeforeAnyStage ==
  \A c \in DOMAIN clips :
    (clips[c].scenario_type \notin Scenarios /\ pc[c] # "load")
    => /\ pc[c] = "raised"
       /\ outcome[c] = Some(Raise("ValueError"))
       /\ \A i \in 1..Len(trace[c]) : trace[c][i].kind = "raise"
       /\ [clips[c] EXCEPT !.status = PENDING] = NewClip(clips[c].scenario_type)
       /\ (c \notin DOMAIN approvals => clips[c].status = PENDING)
       /\ c \notin DOMAIN clip_assets

C12_Witness ==
  \E c \in DOMAIN clips :
    /\ clips[c].scenario_type \notin Scenarios
    /\ pc[c] = "raised"
    /\ clips[c].status = PENDING

\* the statuses a pipeline run is to leave behind
RunEndStatuses == {SAFETY_FAILED, READY, FAILED}

\* C13: every pipeline run started for an existing clip leaves the clip's
\* stored status in SAFETY_FAILED, READY or FAILED: a run that has returned or
\* raised has committed one of them as its last write, so no clip handed to
\* the pipeline stays in PENDING or another non-terminal status.
C13_RunEndsInTerminalStatus ==
  \A c \in DOMAIN clips :
    pc[c] \in {"returned", "raised"}
    => /\ \E s \in RunEndStatuses : EndedWithCommit(c, s)
       /\ (c \notin DOMAIN approvals => clips[c].status \in RunEndStatuses)

\* C14: when mixing fails, mix_with_background returns the voice path it was
\* given and nothing is raised: the run goes on to the READY commit, the
\* asset names no mixed file, and the audio endpoint serves the voice file.
C14_MixFailureFallsBackToVoice ==
  \A c \in DOMAIN clips :
    mix_environment[c] = Some("exception")
    => /\ final_path[c] = voice_path[c]
       /\ final_path[c][1] \in files
       /\ caught[c] = Null
       /\ pc[c] \in {"commit_ready", "returned"}
       /\ pc[c] = "returned"
            => /\ EndedWithCommit(c, READY)
               /\ outcome[c] = Some(Return(READY))
               /\ clip_assets[c].audio_file_path = voice_path[c][1]
               /\ clip_assets[c].mixed_audio_path = Null
               /\ get_clip_audio_response(c) = [code |-> 200, file |-> voice_path[c]]
               /\ (c \notin DOMAIN approvals => clips[c].status = READY)

C14_Witness ==
  \E c \in DOMAIN clips :
    /\ mix_environment[c] = Some("exception")
    /\ pc[c] = "returned"
    /\ clips[c].status = READY
    /\ get_clip_audio_response(c).code = 200

\* a run is in progress: started, and neither returned nor raised
InProgress(c) == pc[c] \notin {"idle", "returned", "raised"}

\* C15: while a run for a clip is in progress, only the orchestrator changes
\* the clip's stored status: every step that changes it is a commit of the
\* run; a concurrent approve call does not write it.
C15_OnlyOrchestratorWritesStatusDuringRun ==
  [][ \A c \in DOMAIN clips :
        (InProgress(c) /\ clips'[c].status # clips[c].status)
          => /\ Len(trace'[c]) = Len(trace[c]) + 1
             /\ trace'[c][Len(trace'[c])].kind = "commit" ]_vars

\* the stored row holds the script columns of the run's generation result
ScriptStored(c) ==
  /\ generation_result[c] # Null
  /\ clips[c].generated_script = Some(generation_result[c][1].script)
  /\ clips[c].scene_description # Null
  /\ clips[c].voice_params # Null
  /\ clips[c].llm_tokens_used # Null

\* the stored row holds the outcome of the run's safety review
SafetyStored(c) ==
  /\ safety_result[c] # Null
  /\ clips[c].safety_status = Some(SafetyStatus(safety_result[c][1].approved))
  /\ clips[c].safety_feedback = safety_result[c][1].feedback
  /\ clips[c].safety_checks = Some(safety_result[c][1].checks)

\* the store holds the voice file path and the duration of the run's synthesis
VoiceStored(c) ==
  /\ voice_path[c] # Null
  /\ c \in DOMAIN clip_assets
  /\ clip_assets[c].audio_file_path = voice_path[c][1]
  /\ clip_assets[c].duration_seconds = duration[c]
  /\ clips[c].duration_seconds = duration[c]

\* C16: each stage's output is committed before the next stage begins: the
\* script columns are stored when review_safety is due or called, the safety
\* outcome when synthesize_speech is due or called, and the voice file path
\* and duration when mix_with_background is due or called.
C16_StageOutputCommittedBeforeNextStage ==
  \A c \in DOMAIN clips :
    /\ (pc[c] = "review_safety" \/ Called(c, "review_safety")) => ScriptStored(c)
    /\ (pc[c] = "synthesize_speech" \/ Called(c, "synthesize_speech")) => SafetyStored(c)
    /\ (pc[c] = "mix_with_background" \/ Called(c, "mix_with_background")) => VoiceStored(c)

\* the status under which each stage function is to be called
StageStatus ==
  [ generate_script     |-> GENERATING,
    review_safety       |-> SAFETY_REVIEW,
    synthesize_speech   |-> SYNTHESIZING,
    mix_with_background |-> SYNTHESIZING ]

\* C17: each stage function is called only while the clip's stored status is
\* that stage's status: generate_script under GENERATING, review_safety under
\* SAFETY_REVIEW, synthesize_speech and mix_with_background under SYNTHESIZING.
C17_StageCalledUnderItsStatus ==
  \A c \in DOMAIN clips :
    \A i \in 1..Len(trace[c]) :
      trace[c][i].kind = "call" => trace[c][i].status = StageStatus[trace[c][i].name]

\* C18: generated_script is stored exactly when the generation stage has
\* completed (the script columns were committed): a clip with status
\* SAFETY_REVIEW, SAFETY_FAILED, SYNTHESIZING or READY has a script, and a
\* clip that is PENDING, or whose run failed in generation, has none.
C18_ScriptIffGenerationCompleted ==
  \A c \in DOMAIN clips :
    /\ clips[c].generated_script # Null <=> Committed(c, "script")
    /\ clips[c].generated_script # Null
         => /\ generation_result[c] # Null
            /\ clips[c].generated_script = Some(generation_result[c][1].script)
    /\ clips[c].status \in {SAFETY_REVIEW, SAFETY_FAILED, SYNTHESIZING, READY}
         => clips[c].generated_script # Null
    /\ clips[c].status = PENDING => clips[c].generated_script = Null
    /\ (clips[c].status = FAILED /\ generation_result[c] = Null)
         => clips[c].generated_script = Null

C18_Witness ==
  /\ \E c \in DOMAIN clips :
       /\ clips[c].status = FAILED
       /\ gen_response[c] # Null
       /\ generation_result[c] = Null
       /\ clips[c].generated_script = Null
  /\ \E c \in DOMAIN clips :
       /\ clips[c].status = SAFETY_FAILED
       /\ clips[c].generated_script # Null

\* the three safety columns of a row
SafetyColumns(row) ==
  <<row.safety_status, row.safety_feedback, row.safety_checks>>

\* C19: the stored safety_status, safety_checks and safety_feedback are all
\* unwritten or were written by one commit: every step that changes one of
\* them starts from all three null and stores the status, the checks and the
\* feedback of the run's safety result together, so safety_status is never
\* seen set while safety_checks is unset.
C19_SafetyColumnsWrittenTogether ==
  [][ \A c \in DOMAIN clips :
        /\ SafetyColumns(clips'[c]) # SafetyColumns(clips[c])
             => /\ SafetyColumns(clips[c]) = <<Null, Null, Null>>
                /\ clips'[c].safety_status # Null
                /\ clips'[c].safety_checks # Null
                /\ SafetyStored(c)'
        /\ clips[c].safety_status = Null <=> clips[c].safety_checks = Null
        /\ clips[c].safety_status = Null => clips[c].safety_feedback = Null ]_vars

C19_Witness ==
  /\ \E c \in DOMAIN clips :
       /\ clips[c].safety_status = Some("rejected")
       /\ clips[c].safety_checks # Null
       /\ clips[c].safety_feedback = Some(ReviewerFeedback)
  /\ \E c \in DOMAIN clips :
       /\ clips[c].safety_status = Some("approved")
       /\ clips[c].safety_checks # Null
       /\ clips[c].safety_feedback = Null

\* C20: a ClipAsset row exists only for a clip whose synthesis succeeded and
\* whose run committed READY; the step that creates it is the commit that
\* stores status READY, audio_url and duration_seconds, a clip becomes READY
\* only in that step, and an existing asset row is never changed or removed.
C20_AssetCreatedWithReadyAndKept ==
  [][ \A c \in DOMAIN clips :
        /\ c \in DOMAIN clip_assets
             => /\ Committed(c, READY)
                /\ tts_response[c] # Null
                /\ tts_response[c][1].call = "ok"
                /\ clip_assets[c].audio_file_path = voice_path[c][1]
                /\ c \in DOMAIN clip_assets'
                /\ clip_assets'[c] = clip_assets[c]
        /\ (c \notin DOMAIN clip_assets /\ c \in DOMAIN clip_assets')
             => /\ clips[c].status # READY
                /\ clips'[c].status = READY
                /\ clips[c].audio_url = Null
                /\ clips'[c].audio_url # Null
                /\ clips[c].duration_seconds = Null
                /\ clips'[c].duration_seconds # Null
                /\ clips'[c].duration_seconds = clip_assets'[c].duration_seconds
                /\ EndedWithCommit(c, READY)'
        /\ (clips[c].status # READY /\ clips'[c].status = READY)
             => (c \notin DOMAIN clip_assets /\ c \in DOMAIN clip_assets') ]_vars

C20_Witness ==
  \E c \in DOMAIN clips :
    /\ c \in DOMAIN clip_assets
    /\ c \in DOMAIN approvals
    /\ clips[c].status = APPROVED
    /\ clip_assets[c].mixed_audio_path # Null
    /\ \E d \in DOMAIN clips :
         /\ Called(d, "synthesize_speech")
         /\ pc[d] = "raised"
         /\ d \notin DOMAIN clip_assets

\* the generation response is a JSON object with every required field
SchemaValid(r) == GivesObject(r) /\ r.missing = {}

\* C21: when the generator gives a schema-valid result, the reviewer approves
\* and synthesize_speech returns duration D (the clip's length in seconds when
\* it decodes), the run never fails and ends with status READY,
\* duration_seconds D, an audio url, safety_status "approved" and one asset
\* row, whatever mixing did.
C21_HappyPathEndsReady ==
  \A c \in DOMAIN clips :
    ( /\ gen_response[c] # Null /\ SchemaValid(gen_response[c][1])
      /\ safety_response[c] # Null /\ ParsedApproved(safety_response[c][1])
      /\ tts_response[c] # Null /\ tts_response[c][1].call = "ok" )
    => /\ pc[c] \in {"mix_with_background", "commit_ready", "returned"}
       /\ caught[c] = Null
       /\ pc[c] = "returned"
            => /\ EndedWithCommit(c, READY)
               /\ outcome[c] = Some(Return(READY))
               /\ (c \notin DOMAIN approvals => clips[c].status = READY)
               /\ clips[c].duration_seconds = duration[c]
               /\ tts_response[c][1].decodes
                    => duration[c] = Some(tts_response[c][1].length_ms \div 1000)
               /\ clips[c].audio_url # Null
               /\ clips[c].safety_status = Some("approved")
               /\ c \in DOMAIN clip_assets
               /\ clip_assets[c].duration_seconds = clips[c].duration_seconds
               /\ mix_environment[c] # Null

C21_Witness ==
  /\ \E c \in DOMAIN clips :
       /\ clips[c].status = READY
       /\ clips[c].duration_seconds = Some(40)
       /\ mix_environment[c] = Some("mixed")
  /\ \E c \in DOMAIN clips :
       /\ clips[c].status = READY
       /\ clips[c].duration_seconds = Some(40)
       /\ mix_environment[c] = Some("exception")

\* C22: for a voice of V >= 1 ms and a present background of B >= 1 ms, the
\* background is repeated V div B + 1 times when B < V, and after trimming the
\* mix is exactly V ms long, whether B is below, equal to or above V.
C22_MixedLengthEqualsVoice ==
  (fn_result # Null /\ fn_args[1].voice_ms >= 1 /\ fn_args[1].background_ms >= 1)
    => /\ fn_result[1].kind = "return"
       /\ fn_result[1].value.length_ms = fn_args[1].voice_ms
       /\ fn_args[1].background_ms < fn_args[1].voice_ms
            => fn_result[1].value.repetitions =
                 (fn_args[1].voice_ms \div fn_args[1].background_ms) + 1

C22_Witness ==
  /\ fn_result # Null
  /\ fn_args[1].voice_ms = 7
  /\ fn_args[1].background_ms = 3
  /\ fn_result[1] = Return([repetitions |-> 3, length_ms |-> 7])

\* an error was raised inside a stage of the run: the generation call or its
\* parsing, the safety call, the TTS call, or the decoding of the
\* synthesized audio
StageError(c) ==
  \/ /\ gen_response[c] # Null
     /\ (gen_response[c][1].call = "error" \/ NoGenerationResult(gen_response[c][1]))
  \/ safety_response[c] # Null /\ safety_response[c][1].call = "error"
  \/ /\ tts_response[c] # Null
     /\ (tts_response[c][1].call = "error" \/ ~tts_response[c][1].decodes)

\* C23: every error raised inside the generation, safety-review or synthesis
\* stage, a failure to decode the synthesized audio included, reaches the
\* orchestrator and the run ends by committing FAILED; a run that met a
\* mixing error only does not fail.
C23_StageErrorsFailTheClip ==
  \A c \in DOMAIN clips :
    /\ StageError(c)
         => /\ pc[c] \in {"handler", "raised"}
            /\ caught[c] # Null
            /\ pc[c] = "raised" => EndedWithCommit(c, FAILED)
    /\ (mix_environment[c] = Some("exception") /\ ~StageError(c))
         => (caught[c] = Null /\ ~Committed(c, FAILED))

\* how often the run has called a stage function
CallCount(c, name) ==
  Cardinality({i \in 1..Len(trace[c]) :
                 trace[c][i].kind = "call" /\ trace[c][i].name = name})

StageFunctions ==
  {"generate_script", "review_safety", "synthesize_speech", "mix_with_background"}

\* C24: within one run generate_script, review_safety and synthesize_speech
\* are each called at most once; once one of them has raised, the run makes
\* no further call, goes to the handler and ends by committing FAILED.
C24_NoRetryAfterFailure ==
  [][ \A c \in DOMAIN clips :
        /\ \A name \in {"generate_script", "review_safety", "synthesize_speech"} :
             CallCount(c, name)' <= 1
        /\ caught[c] # Null
             => /\ \A name \in StageFunctions : CallCount(c, name)' = CallCount(c, name)
                /\ caught'[c] = caught[c]
                /\ pc[c] \in {"handler", "raised"}
                /\ pc'[c] \in {"handler", "raised"}
                /\ pc'[c] = "raised" => EndedWithCommit(c, FAILED)' ]_vars

C24_Witness ==
  /\ \E c \in DOMAIN clips :
       /\ caught[c] = Some("HTTPError")
       /\ pc[c] = "raised"
       /\ CallCount(c, "generate_script") = 1
       /\ CallCount(c, "review_safety") = 1
       /\ CallCount(c, "synthesize_speech") = 1
  /\ \E c \in DOMAIN clips :
       /\ caught[c] = Some("APIError")
       /\ pc[c] = "raised"
       /\ CallCount(c, "review_safety") = 0

\* what the run of clip c was given: its scenario and its stage outcomes
StageOutcomes(c) ==
  <<clips[c].scenario_type, gen_response[c], safety_response[c],
    tts_response[c], mix_environment[c]>>

\* the run of clip c has ended
Ended(c) == pc[c] \in {"returned", "raised"}

\* the stored result of a run, without what names the clip (the id in the
\* audio url and in the file paths) and without the parent's decision
StoredResult(c) ==
  << [clips[c] EXCEPT !.audio_url = Null, !.status = PENDING],
     clips[c].audio_url # Null,
     c \in DOMAIN clip_assets,
     IF c \in DOMAIN clip_assets
       THEN <<clip_assets[c].duration_seconds, clip_assets[c].mixed_audio_path # Null>>
       ELSE <<>>,
     IF trace[c] = <<>> THEN "" ELSE trace[c][Len(trace[c])].name >>

\* C25: a step of the run of clip a writes no column of another clip b, no
\* asset row of b and no local of b's run; the files of two clips are
\* different files; and two ended runs that were given the same stage
\* outcomes have stored the same result, whatever the interleaving.
C25_RunsAreIndependent ==
  [][ \A a \in DOMAIN clips : \A b \in DOMAIN clips \ {a} :
        /\ (pc'[a] # pc[a])
             => /\ clips'[b] = clips[b]
                /\ (b \in DOMAIN clip_assets' <=> b \in DOMAIN clip_assets)
                /\ b \in DOMAIN clip_assets => clip_assets'[b] = clip_assets[b]
                /\ dirty'[b] = dirty[b] /\ pending_asset'[b] = pending_asset[b]
                /\ voice_path'[b] = voice_path[b] /\ final_path'[b] = final_path[b]
                /\ trace'[b] = trace[b] /\ outcome'[b] = outcome[b]
        /\ (voice_path[a] # Null /\ voice_path[b] # Null)
             => voice_path[a] # voice_path[b]
        /\ (get_clip_audio_response(a).code = 200 /\ get_clip_audio_response(b).code = 200)
             => get_clip_audio_response(a).file # get_clip_audio_response(b).file
        /\ (Ended(a) /\ Ended(b) /\ StageOutcomes(a) = StageOutcomes(b))
             => /\ StoredResult(a) = StoredResult(b)
                /\ (a \notin DOMAIN approvals /\ b \notin DOMAIN approvals)
                     => clips[a].status = clips[b].status ]_vars

C25_Witness ==
  \E a \in DOMAIN clips : \E b \in DOMAIN clips \ {a} :
    /\ Ended(a) /\ Ended(b)
    /\ StageOutcomes(a) = StageOutcomes(b)
    /\ clips[a].status = READY /\ clips[b].status = READY
    /\ voice_path[a] # voice_path[b]
    /\ clips[a].audio_url # clips[b].audio_url

\* C26: generate_script returns a result, with all seven required fields,
\* only for a response that is a JSON object holding all seven, and raises
\* for every other response; so the stored generated_script,
\* scene_description and voice_params of a clip are all null or all set, each
\* with all its parts.
C26_ScriptResultAllOrNothing ==
  /\ \A r \in AllGenResponses \cup {GenCallError} :
       /\ generate_script(r).kind = "return" <=> SchemaValid(r)
       /\ generate_script(r).kind = "return"
            => DOMAIN generate_script(r).value = GenerationFields
  /\ \A c \in DOMAIN clips :
       /\ gen_response[c] # Null
            => /\ generation_result[c] # Null <=> SchemaValid(gen_response[c][1])
               /\ generation_result[c] = Null <=> caught[c] # Null /\ ~Called(c, "review_safety")
       /\ generation_result[c] # Null
            => DOMAIN generation_result[c][1] = GenerationFields
       /\ clips[c].generated_script = Null <=> clips[c].scene_description = Null
       /\ clips[c].generated_script = Null <=> clips[c].voice_params = Null
       /\ clips[c].generated_script # Null
            => /\ DOMAIN clips[c].scene_description[1] = {"setting", "mood", "ambient_sounds"}
               /\ DOMAIN clips[c].voice_params[1] = {"emotion", "pacing", "background_track"}
               /\ SchemaValid(gen_response[c][1])

C26_Witness ==
  /\ \E c \in DOMAIN clips :
       /\ gen_response[c] # Null
       /\ gen_response[c][1].missing = {"script"}
       /\ pc[c] = "raised"
       /\ clips[c].voice_params = Null
  /\ \E c \in DOMAIN clips :
       /\ clips[c].generated_script # Null
       /\ clips[c].voice_params # Null
       /\ clips[c].scene_description # Null

\* C27: the asset's mixed_audio_path is null exactly when mixing was skipped
\* (no background file) or failed; otherwise it names a written file other
\* than audio_file_path, and the voice file is still there.
C27_MixedPathNullIffNoMix ==
  \A c \in DOMAIN clip_assets :
    /\ mix_environment[c] # Null
    /\ clip_assets[c].mixed_audio_path = Null
         <=> mix_environment[c][1] \in {"no_background", "exception"}
    /\ clip_assets[c].audio_file_path \in files
    /\ clip_assets[c].mixed_audio_path # Null
         => /\ mix_environment[c] = Some("mixed")
            /\ clip_assets[c].mixed_audio_path[1] # clip_assets[c].audio_file_path
            /\ clip_assets[c].mixed_audio_path[1] \in files
            /\ \A d \in DOMAIN clip_assets :
                 clip_assets[d].audio_file_path # clip_assets[c].mixed_audio_path[1]

C27_Witness ==
  /\ \E c \in DOMAIN clip_assets :
       /\ mix_environment[c] = Some("mixed")
       /\ clip_assets[c].mixed_audio_path # Null
  /\ \E c \in DOMAIN clip_assets :
       /\ mix_environment[c] = Some("no_background")
       /\ clip_assets[c].mixed_audio_path = Null

\* the style the request is to carry for an emotion, in tenths: the table
\* without and with neutral, and 0.4 for every other value
StyleOfFiveEmotions(emotion) ==
  CASE emotion = "warm" -> 4
    [] emotion = "excited" -> 7
    [] emotion = "gentle" -> 3
    [] emotion = "sleepy" -> 2
    [] emotion = "encouraging" -> 5
    [] OTHER -> 4

StyleOfSixEmotions(emotion) ==
  IF emotion = "neutral" THEN 3 ELSE StyleOfFiveEmotions(emotion)

\* C28 as stated: the mapping gives warm 0.4, excited 0.7, gentle 0.3, sleepy
\* 0.2, encouraging 0.5 and the default 0.4 for every value outside these
\* five, and never raises.
C28_FiveEmotionsElseDefault ==
  fn_result # Null
    => /\ fn_result[1].kind = "return"
       /\ fn_result[1].value.style = StyleOfFiveEmotions(fn_args[1].voice_emotion)

\* C28, amended: the mapping gives warm 0.4, excited 0.7, gentle 0.3, sleepy
\* 0.2, encouraging 0.5, neutral 0.3 and the default 0.4 for every value
\* outside these six, and never raises.
C28_SixEmotionsElseDefault ==
  fn_result # Null
    => /\ fn_result[1].kind = "return"
       /\ fn_result[1].value.style = StyleOfSixEmotions(fn_args[1].voice_emotion)

C28_Witness ==
  /\ fn_result # Null
  /\ fn_args[1].voice_emotion = "neutral"
  /\ fn_result[1] = Return([voice_id |-> DefaultVoiceId, style |-> 3])

\* C29: generation_time_ms is written only by the commit that stores READY,
\* so it is null on every clip whose run committed SAFETY_FAILED or FAILED
\* and set on every clip that became READY; llm_tokens_used is written by
\* the commit that writes generated_script and by no other.
C29_MetricsWrittenWithTheirStage ==
  [][ \A c \in DOMAIN clips :
        /\ clips'[c].generation_time_ms # clips[c].generation_time_ms
             => /\ clips[c].generation_time_ms = Null
                /\ clips[c].status # READY
                /\ clips'[c].status = READY
                /\ EndedWithCommit(c, READY)'
        /\ (clips[c].status # READY /\ clips'[c].status = READY)
             => clips'[c].generation_time_ms # Null
        /\ (Committed(c, SAFETY_FAILED) \/ Committed(c, FAILED))'
             => clips'[c].generation_time_ms = Null
        /\ clips'[c].llm_tokens_used # clips[c].llm_tokens_used
             <=> clips'[c].generated_script # clips[c].generated_script
        /\ clips'[c].llm_tokens_used = Null <=> clips'[c].generated_script = Null ]_vars

C29_Witness ==
  /\ \E c \in DOMAIN clips :
       /\ Committed(c, READY)
       /\ clips[c].generation_time_ms = Some(1500)
       /\ clips[c].llm_tokens_used = Some(900)
  /\ \E c \in DOMAIN clips :
       /\ Committed(c, SAFETY_FAILED)
       /\ clips[c].generation_time_ms = Null
       /\ clips[c].llm_tokens_used = Some(900)

\* C30: a clip whose stored status is APPROVED has an asset row, an audio
\* url and safety_status "approved".
C30_ApprovedClipHasSafeAudio ==
  \A c \in DOMAIN clips :
    clips[c].status = APPROVED
    => /\ c \in DOMAIN clip_assets
       /\ clips[c].audio_url # Null
       /\ clips[c].safety_status = Some("approved")

\* C31: once an Approval row is stored for a clip, the clip's stored status
\* is APPROVED or REJECTED as the row says, in every later state: a run
\* still in progress does not overwrite it.
C31_ApprovalOutcomeStays ==
  \A c \in DOMAIN approvals :
    clips[c].status = ApprovalStatus(approvals[c].approved)

\* C32: at most one approval decision is recorded per clip: once an Approval
\* row exists it never changes, a further approve call changes neither the
\* row nor the status, every change of the status to APPROVED or REJECTED is
\* made by the first decision, and a clip is never APPROVED against a
\* rejecting row or REJECTED against an approving one.
C32_OneApprovalPerClip ==
  [][ \A c \in DOMAIN clips :
        /\ c \in DOMAIN approvals
             => /\ c \in DOMAIN approvals'
                /\ approvals'[c] = approvals[c]
                /\ clips'[c].status \in {APPROVED, REJECTED}
                     => clips'[c].status = clips[c].status
        /\ clips'[c].status \in {APPROVED, REJECTED}
             => /\ c \in DOMAIN approvals'
                /\ clips'[c].status = ApprovalStatus(approvals'[c].approved) ]_vars

C32_Witness ==
  /\ \E c \in DOMAIN approvals : clips[c].status = APPROVED /\ pc[c] = "returned"
  /\ \E c \in DOMAIN approvals : clips[c].status = REJECTED /\ pc[c] = "returned"

\* C33: in every stored state, status SAFETY_FAILED goes with safety_status
\* "rejected", status SYNTHESIZING or READY with "approved", and status
\* PENDING, GENERATING or SAFETY_REVIEW with a null safety_status; the same
\* holds of the row as each commit of the run leaves it.
C33_StatusAgreesWithSafetyStatus ==
  \A c \in DOMAIN clips :
    /\ clips[c].status = SAFETY_FAILED => clips[c].safety_status = Some("rejected")
    /\ clips[c].status \in {SYNTHESIZING, READY}
         => clips[c].safety_status = Some("approved")
    /\ clips[c].status \in {PENDING, GENERATING, SAFETY_REVIEW}
         => clips[c].safety_status = Null
    /\ Committed(c, SAFETY_FAILED) => clips[c].safety_status = Some("rejected")
    /\ (Committed(c, SYNTHESIZING) \/ Committed(c, READY))
         => clips[c].safety_status = Some("approved")
    /\ ~(Committed(c, SAFETY_FAILED) \/ Committed(c, SYNTHESIZING))
         => clips[c].safety_status = Null

C33_Witness ==
  /\ \E c \in DOMAIN clips :
       clips[c].status = SAFETY_FAILED /\ clips[c].safety_status = Some("rejected")
  /\ \E c \in DOMAIN clips :
       clips[c].status = SYNTHESIZING /\ clips[c].safety_status = Some("approved")

\* how many commits of `status` the runs for clip c have made
CommitCount(c, status) ==
  Cardinality({i \in 1..Len(trace[c]) :
                 trace[c][i].kind = "commit" /\ trace[c][i].name = status})

\* C34: a run is started for a clip exactly when the generate endpoint
\* creates it and never for a clip that exists: every clip has its one run,
\* a run that ended is not started again, the clip is committed GENERATING
\* and READY at most once, and its asset row is created at most once.
C34_OneRunPerClip ==
  [][ \A c \in ClipIds :
        /\ c \in DOMAIN clips <=> pc[c] # "idle"
        /\ (pc'[c] = "load" /\ pc[c] # "load")
             => (c \notin DOMAIN clips /\ c \in DOMAIN clips' /\ trace[c] = <<>>)
        /\ Ended(c) => (pc'[c] = pc[c] /\ trace'[c] = trace[c])
        /\ CommitCount(c, GENERATING)' <= 1
        /\ CommitCount(c, READY)' <= 1
        /\ c \in DOMAIN clip_assets
             => (c \in DOMAIN clip_assets' /\ clip_assets'[c] = clip_assets[c]) ]_vars

C34_Witness ==
  /\ \A c \in ClipIds : c \in DOMAIN clip_assets /\ Ended(c)
  /\ \A c \in ClipIds : CommitCount(c, GENERATING) = 1 /\ CommitCount(c, READY) = 1

\* C35: a run started for a clip whose stored status is not PENDING calls no
\* stage and changes nothing of the clip; the stored status becomes
\* GENERATING only from PENDING.
C35_RunStartsOnlyFromPending ==
  [][ \A c \in DOMAIN clips :
        /\ (clips'[c].status = GENERATING /\ clips[c].status # GENERATING)
             => clips[c].status = PENDING
        /\ (pc[c] = "load" /\ clips[c].status # PENDING)
             => pc'[c] \in {"load", "returned", "raised"} ]_vars

\* the lookups of the run of clip id c fail: no row, or no Scenario of its type
LookupFails(c) ==
  c \notin DOMAIN clips \/ clips[c].scenario_type \notin Scenarios

\* C36: when the clip id has no row or the scenario type has no Scenario,
\* generate_clip raises ValueError and commits nothing: the step leaves the
\* store as it was, nothing is left to be committed, the run does nothing
\* afterwards, and a clip of an unknown scenario keeps status PENDING.
C36_FailedLookupCommitsNothing ==
  [][ \A c \in ClipIds :
        LookupFails(c)
        => /\ pc[c] \in {"load", "raised"}
           /\ pc'[c] \in {"load", "raised"}
           /\ pc'[c] = "raised"
                => /\ outcome'[c] = Some(Raise("ValueError"))
                   /\ Len(trace'[c]) = 1
                   /\ trace'[c][1].kind = "raise"
           /\ dirty'[c] = NoChanges
           /\ pending_asset'[c] = Null
           /\ c \in DOMAIN clips' <=> c \in DOMAIN clips
           /\ c \in DOMAIN clips
                => (clips'[c] = clips[c] /\ clips[c].status = PENDING)
           /\ c \notin DOMAIN clip_assets'
           /\ pc'[c] # pc[c] => store' = store ]_vars

C36_Witness ==
  /\ \E c \in ClipIds : c \notin DOMAIN clips /\ pc[c] = "raised"
  /\ \E c \in DOMAIN clips :
       /\ clips[c].scenario_type \notin Scenarios
       /\ pc[c] = "raised"
       /\ clips[c].status = PENDING

\* C37: the audio endpoint serves no audio for a clip whose stored status is
\* REJECTED: a request for the audio of a rejected clip is not answered with
\* the audio file.
C37_NoAudioForRejectedClip ==
  \A c \in DOMAIN clips :
    clips[c].status = REJECTED => get_clip_audio_response(c).code # 200

====
